---- MODULE Spec2Model ----
(***************************************************************************)
(* A model of the dashboard pages of the repository: the coffee-shop page  *)
(* (pages/Foursquare POI.py), the Overture places page, the housing page   *)
(* (pages/map.py), the holiday page, the Airbnb street density page and    *)
(* the Citibike dashboard.  Every run of a page's main() is                *)
(* one step; what a run reads from the browser, the database, the file     *)
(* system or the network is an input of the step.                          *)
(***************************************************************************)
EXTENDS Integers, Sequences, FiniteSets, TLC

VARIABLES
    session_state,  \* coffee-shop page: st.session_state of the one browser session
    fsq_in,         \* coffee-shop page: what the last run of main() was given
    fsq_out,        \* coffee-shop page: what the last run of main() put on the page
    fsq_rerun,      \* coffee-shop page: the last run ended in st.rerun()
    ov_in,          \* Overture page: what the last run of main() was given
    ov_out,         \* Overture page: what the last run of main() did and showed
    disk,           \* housing page: the housing GeoJSON file of each district, by path
    db_tables,      \* housing page: the tables of the file hong_kong_data.duckdb
    memo_exec,      \* housing page: st.cache_data of execute_duckdb_queries (the lists run)
    memo_select,    \* housing page: st.cache_data of execute_duckdb_select_query, by name
    hs,             \* housing page: per browser session, where its run of main() stands
    exec_log,       \* housing page: what the last body run of execute_duckdb_queries did
    all_ok,         \* housing page: no statement or connection has failed so far
    hol_con,        \* holiday page: the connection st.cache_resource holds, and its tables
    hol_ss,         \* holiday page: materialized_for_year of each session's session state
    hol_out,        \* holiday page: what each session's last run of main() did
    hol_actor,      \* holiday page: the session whose run was the last step (0: none)
    ab_ss,          \* Airbnb page: st.session_state of the one browser session
    ab_in,          \* Airbnb page: what the last run of main() was given
    ab_out,         \* Airbnb page: what the last run of main() put on the page
    hd_trips,       \* holiday page: the trips of the dataset, counted per day, hour, station
    hd_in,          \* holiday page: the holiday and the hour of the last analysis
    hd_rows,        \* holiday page: the rows the last comparison query returned
    hd_map,         \* holiday page: the difference and fill colour drawn per neighbourhood
    cb_in,          \* Citibike page: what the last run of main() was given
    cb_out,         \* Citibike page: what the last run of main() put on the page, in order
    nm_out          \* housing page: the name and statements last built for a district

fsq_vars == <<session_state, fsq_in, fsq_out, fsq_rerun>>

ov_vars == <<ov_in, ov_out>>

hs_vars == <<disk, db_tables, memo_exec, memo_select, hs, exec_log, all_ok>>

hol_vars == <<hol_con, hol_ss, hol_out, hol_actor>>

ab_vars == <<ab_ss, ab_in, ab_out>>

hd_vars == <<hd_trips, hd_in, hd_rows, hd_map>>

cb_vars == <<cb_in, cb_out>>

nm_vars == <<nm_out>>

\* the variables of the pages modelled further below
ext_vars == <<ab_vars, hd_vars, cb_vars, nm_vars>>

vars == <<session_state, fsq_in, fsq_out, fsq_rerun, ov_in, ov_out,
          disk, db_tables, memo_exec, memo_select, hs, exec_log, all_ok,
          hol_con, hol_ss, hol_out, hol_actor,
          ab_ss, ab_in, ab_out, hd_trips, hd_in, hd_rows, hd_map, cb_in, cb_out,
          nm_out>>

(***************************************************************************)
(* Bounds.                                                                 *)
(***************************************************************************)
\* the coffee-shop page takes no further selection once current_event_num is this
MaxEventNum == 4
\* the longest text typed into the category box of the Overture page
MaxInputLen == 2
\* the most trips that start on one day, in one hour, at one station of the holiday data
MaxTrips == 2

(***************************************************************************)
(* The coffee-shop page, pages/Foursquare POI.py.                          *)
(***************************************************************************)

\* rows of fsq_coffee (name, longitude, latitude, website, tel); coordinates in 1e-4 degrees
Shops ==
    { [name |-> "A", latitude |-> 222800, longitude |-> 1141500, website |-> "a.hk", tel |-> "2100"],
      [name |-> "B", latitude |-> 223900, longitude |-> 1141900, website |-> "",     tel |-> "2200"],
      [name |-> "C", latitude |-> 224400, longitude |-> 1140300, website |-> "c.hk", tel |-> ""] }

\* the value of current_deck.selection.objects: a dict from layer id to the picked objects
NoObjects == <<>>
Picked(obj) == [l \in {"Coffee Shop"} |-> <<obj>>]
Selections == {NoObjects} \cup {Picked(obj) : obj \in Shops}

\* f"event{n}"
EventKey(n) == <<"event", n>>

\* create_deck(latitude, longitude, zoom): the view state of the deck it returns
create_deck(latitude, longitude, zoom) ==
    [latitude |-> latitude, longitude |-> longitude, zoom |-> zoom]

\* the citywide deck of lines 118-122 and 126-130
CityDeck == create_deck(223193, 1141694, 10)

\* the zoomed deck of lines 179-183
ZoomDeck(obj) == create_deck(obj.latitude, obj.longitude, 18)

\* lines 143-156: the details written into info_container for a stored shop
ShopInfo(obj) ==
    [name    |-> obj.name,
     website |-> IF obj.website # "" THEN obj.website ELSE "Website Info Not Provided!",
     tel     |-> IF obj.tel # "" THEN obj.tel ELSE "Phone Number Not Available!"]

\* st.session_state before the first run of the session: no key is set
EmptySessionState ==
    [keys |-> {}, current_event_num |-> 0, events |-> <<>>, selected_shop |-> <<>>]

\* lines 55-65: keys that are missing get their defaults (selected_shop None is << >>)
InitSessionState(ss) ==
    [keys |-> ss.keys \cup {"current_event_num", "events", "selected_shop"},
     current_event_num |-> IF "current_event_num" \in ss.keys THEN ss.current_event_num ELSE 1,
     events |-> IF "events" \in ss.keys THEN ss.events ELSE <<>>,
     selected_shop |-> IF "selected_shop" \in ss.keys THEN ss.selected_shop ELSE <<>>]

\* the event number a run starts from (line 57: 1 when the key is not set yet)
EventNumOf(ss) == IF "current_event_num" \in ss.keys THEN ss.current_event_num ELSE 1

\* lines 111-130: the deck of the current event key is created when it is missing
EnsureCurrentDeck(ss) ==
    LET key == EventKey(ss.current_event_num)
    IN  IF key \in DOMAIN ss.events
        THEN ss
        ELSE [ss EXCEPT !.events = (key :> CityDeck) @@ ss.events]

\* lines 132-156: what the run shows: the deck of the current event and the stored shop
Display(ss) ==
    [deck |-> <<ss.events[EventKey(ss.current_event_num)]>>,
     info |-> IF ss.selected_shop # <<>> THEN <<ShopInfo(ss.selected_shop[1])>> ELSE <<>>,
     exception |-> FALSE]

\* what a run shows when the query of line 33 raises: the exception leaves main()
Crashed == [deck |-> <<>>, info |-> <<>>, exception |-> TRUE]

\* lines 164-168: the selection holds an object of the layer "Coffee Shop"
HasCoffeeShop(sel) == "Coffee Shop" \in DOMAIN sel

\* a variant of OnSelect that keeps the event number
OnSelectSameEvent(ss, obj) ==
    [ss EXCEPT !.selected_shop = <<obj>>,
               !.events = (EventKey(ss.current_event_num) :> ZoomDeck(obj)) @@ ss.events]

\* lines 169-183: store the object, move to the next event, store its zoomed deck
OnSelect(ss, obj) ==
    LET n == ss.current_event_num + 1
    IN  [ss EXCEPT !.selected_shop = <<obj>>,
                   !.current_event_num = n,
                   !.events = (EventKey(n) :> ZoomDeck(obj)) @@ ss.events]

\* lines 189-193: Reset View clears everything
OnReset(ss) ==
    [ss EXCEPT !.events = <<>>, !.selected_shop = <<>>, !.current_event_num = 1]

\* one run of main(); sel is the chart's selection, btn the Reset View button,
\* dbok says whether connect_to_duckdb() and the query of line 33 succeed
FsqRun(sel, btn, dbok) ==
    /\ fsq_rerun => ~btn
    /\ HasCoffeeShop(sel) => EventNumOf(session_state) < MaxEventNum
    /\ fsq_in' = [sel |-> sel, btn |-> btn, dbok |-> dbok]
    /\ IF ~dbok
       THEN /\ fsq_out' = Crashed
            /\ fsq_rerun' = FALSE
            /\ UNCHANGED session_state
       ELSE LET ss == EnsureCurrentDeck(InitSessionState(session_state))
            IN  /\ fsq_out' = Display(ss)
                /\ IF HasCoffeeShop(sel)
                   THEN /\ session_state' = OnSelect(ss, sel["Coffee Shop"][1])
                        /\ fsq_rerun' = TRUE
                   ELSE IF btn
                   THEN /\ session_state' = OnReset(ss)
                        /\ fsq_rerun' = TRUE
                   ELSE /\ session_state' = ss
                        /\ fsq_rerun' = FALSE

FsqStart ==
    /\ session_state = EmptySessionState
    /\ fsq_in = [sel |-> NoObjects, btn |-> FALSE, dbok |-> TRUE]
    /\ fsq_out = [deck |-> <<>>, info |-> <<>>, exception |-> FALSE]
    /\ fsq_rerun = FALSE

\* a run of the page whose connection or query of fsq_coffee raises
FsqFaultNext ==
    /\ \E sel \in Selections, btn \in BOOLEAN : FsqRun(sel, btn, FALSE)
    /\ UNCHANGED <<ov_vars, hs_vars, hol_vars, ext_vars>>

\* the runs of the page whose query of fsq_coffee succeeds
FsqNext ==
    /\ \E sel \in Selections, btn \in BOOLEAN : FsqRun(sel, btn, TRUE)
    /\ UNCHANGED <<ov_vars, hs_vars, hol_vars, ext_vars>>

\* the session state Reset View leaves behind
ResetState ==
    [keys |-> {"current_event_num", "events", "selected_shop"},
     current_event_num |-> 1, events |-> <<>>, selected_shop |-> <<>>]

\* C1: a run that sees a selection holding a 'Coffee Shop' object stores the object
\* as selected_shop, adds exactly one to current_event_num, stores under the new
\* event key the deck centred on the object at zoom 18 and ends in a rerun; the
\* run that follows shows that deck and the stored shop's name, website and
\* telephone details.
C1_SelectStoresZoomsReruns ==
    [][ /\ HasCoffeeShop(fsq_in'.sel) =>
              LET obj == fsq_in'.sel["Coffee Shop"][1]
                  n   == EventNumOf(session_state) + 1
              IN  /\ session_state'.selected_shop = <<obj>>
                  /\ session_state'.current_event_num = n
                  /\ EventKey(n) \in DOMAIN session_state'.events
                  /\ session_state'.events[EventKey(n)] =
                        [latitude |-> obj.latitude, longitude |-> obj.longitude, zoom |-> 18]
                  /\ fsq_rerun'
        /\ (fsq_rerun /\ HasCoffeeShop(fsq_in.sel)) =>
              LET obj == fsq_in.sel["Coffee Shop"][1]
              IN  /\ fsq_out'.deck =
                        <<[latitude |-> obj.latitude, longitude |-> obj.longitude, zoom |-> 18]>>
                  /\ fsq_out'.info = <<ShopInfo(obj)>>
                  /\ fsq_out'.info[1].name = obj.name
      ]_vars

\* C1 witness: the run after a selection has shown the zoomed deck with the details
C1_Witness ==
    /\ ~fsq_rerun
    /\ ~HasCoffeeShop(fsq_in.sel)
    /\ fsq_out.deck # <<>> /\ fsq_out.deck[1].zoom = 18
    /\ fsq_out.info # <<>>
    /\ session_state.current_event_num = 2

\* C10: pressing Reset View sets the session state back to events = {},
\* selected_shop = None and current_event_num = 1 and ends in a rerun, and the run
\* that follows shows the citywide deck (22.3193, 114.1694, zoom 10) with no shop
\* details.
C10_ResetAlwaysResets ==
    [][ /\ fsq_in'.btn => (session_state' = ResetState /\ fsq_rerun')
        /\ (fsq_rerun /\ fsq_in.btn) =>
              /\ fsq_out'.deck = <<[latitude |-> 223193, longitude |-> 1141694, zoom |-> 10]>>
              /\ fsq_out'.info = <<>>
      ]_vars

(***************************************************************************)
(* The Overture places page, pages/OvertureMap POI.py.  Text is a sequence *)
(* of characters, so that lower-casing and matching are computed.          *)
(***************************************************************************)

Alphabet == {"a", "b", "A", "."}

\* the texts of at most n characters
RECURSIVE TextsUpTo(_)
TextsUpTo(n) ==
    IF n = 0 THEN {<<>>}
    ELSE LET shorter == TextsUpTo(n - 1)
         IN  shorter \cup {Append(t, c) : t \in {u \in shorter : Len(u) = n - 1}, c \in Alphabet}

\* the texts typed into the category box
Texts == TextsUpTo(MaxInputLen)

\* the column 'Category code' of data/categories.csv
CategoryCodes == { <<"a", "b">>, <<"b", "b">>, <<"b">> }

\* str.lower()
LowerChar(c) == IF c = "A" THEN "a" ELSE c
Lower(t) == [i \in 1..Len(t) |-> LowerChar(t[i])]

\* re.search(pat, text) for a pattern of letters and '.', which matches any character
ReSearch(pat, text) ==
    \E i \in 1..(Len(text) - Len(pat) + 1) :
        \A j \in 1..Len(pat) : pat[j] = "." \/ pat[j] = text[i + j - 1]

\* lines 104-106: the rows of the categories list whose lower-cased code contains the
\* lower-cased input (Series.str.contains is a regular-expression search)
matching_categories(user_category) ==
    {c \in CategoryCodes : ReSearch(Lower(user_category), Lower(c))}

\* what get_country_bounding_box returns: None (<< >>: no result, a bad status or an
\* exception) or the list data[0]["boundingbox"] as floats
BoundingBoxes == { <<>>, <<22, 23, 113, 115>>, <<22, 23, 113>> }

Countries == { "", "Hong Kong" }

\* the variant of the test of line 132 that asks for either input only
QueryWantedEither(valid_category, valid_bounding_box) ==
    valid_category \/ valid_bounding_box

\* line 132: the query is generated when both inputs are valid
QueryWanted(valid_category, valid_bounding_box) ==
    valid_category /\ valid_bounding_box

\* lines 133-140: the SQL text, by the values placed into it
PlacesQuery(user_category, bounding_box) ==
    [category |-> user_category, bounding_box |-> bounding_box]

NothingDone ==
    [valid_category |-> FALSE, valid_bounding_box |-> FALSE, query |-> <<>>,
     map_drawn |-> FALSE, messages |-> {}, exception |-> FALSE]

\* what can fail in a run: connect_to_duckdb() (line 56), reading data/categories.csv
\* (line 70), the places query (line 142), or nothing; an earlier failure ends the run
\* before the later calls are made
OvFaults == {"none", "connect", "csv", "query"}

\* one run of main(); bbox is what the geocoder call returns
OvRun(user_category, country, fault, bbox) ==
    /\ ov_in' = [user_category |-> user_category, country |-> country, fault |-> fault,
                 bbox |-> bbox]
    /\ IF fault = "connect"
       THEN ov_out' = [NothingDone EXCEPT !.exception = TRUE]
       ELSE IF fault = "csv"
       THEN ov_out' = [NothingDone EXCEPT !.messages = {"Categories file not found"}]
       ELSE LET valid_category == user_category # <<>> /\ matching_categories(user_category) # {}
                valid_bounding_box == country # "" /\ bbox # <<>> /\ Len(bbox) = 4
                m1 == IF user_category = <<>> THEN {}
                      ELSE IF valid_category THEN {"Found matching categories"}
                      ELSE {"No exact matches found for category"}
                m2 == IF country # "" /\ ~valid_bounding_box
                      THEN {"No exact matches found for country"} ELSE {}
                run == QueryWanted(valid_category, valid_bounding_box)
            IN  ov_out' =
                  [valid_category |-> valid_category,
                   valid_bounding_box |-> valid_bounding_box,
                   query |-> IF run THEN <<PlacesQuery(user_category, bbox)>> ELSE <<>>,
                   map_drawn |-> run /\ fault # "query",
                   messages |-> m1 \cup m2
                                \cup (IF run THEN {"Generating the map"} ELSE {})
                                \cup (IF run /\ fault = "query" THEN {"An error occurred"} ELSE {}),
                   exception |-> FALSE]

OvStart ==
    /\ ov_in = [user_category |-> <<>>, country |-> "", fault |-> "none", bbox |-> <<>>]
    /\ ov_out = NothingDone

\* the runs of the page; an input a run never reads (the geocoder's answer when no
\* country is entered, the text boxes when the run ends before them) is left empty
OvNext ==
    /\ \E user_category \in Texts, country \in Countries,
          fault \in OvFaults, bbox \in BoundingBoxes :
            /\ country = "" => bbox = <<>>
            /\ fault \in {"connect", "csv"} => (user_category = <<>> /\ country = "")
            /\ OvRun(user_category, country, fault, bbox)
    /\ UNCHANGED <<fsq_vars, hs_vars, hol_vars, ext_vars>>

\* C6: the places query runs and a map is drawn only when the entered category was
\* found in the categories list and the entered country resolved to a bounding box
\* of exactly four values; with an empty or invalid input no query runs and no map
\* is drawn.
C6_QueryOnlyWhenBothValid ==
    LET found == /\ ov_in.user_category # <<>>
                 /\ \E c \in CategoryCodes : ReSearch(Lower(ov_in.user_category), Lower(c))
        boxed == ov_in.country # "" /\ Len(ov_in.bbox) = 4
    IN  /\ (ov_out.query # <<>> \/ ov_out.map_drawn) => (found /\ boxed)
        /\ ov_out.map_drawn => ov_out.query # <<>>
        /\ (ov_in.user_category = <<>> \/ ov_in.country = "" \/ ~found \/ ~boxed) =>
              (ov_out.query = <<>> /\ ~ov_out.map_drawn)

\* C6 witness: both inputs valid, the query ran and the map was drawn
C6_Witness ==
    /\ ov_out.map_drawn
    /\ ov_out.query # <<>>
    /\ ov_in.user_category = <<"b">>
    /\ Len(ov_in.bbox) = 4

\* C7: a typed category is accepted only when, ignoring case, it equals one of the
\* category codes of categories.csv; any other text gets the 'No exact matches
\* found' warning and is never the value compared with categories.primary.
C7_OnlyExactCodesAccepted ==
    LET exact == \E c \in CategoryCodes : Lower(c) = Lower(ov_in.user_category)
    IN  (ov_in.fault \in {"none", "query"} /\ ov_in.user_category # <<>> /\ ~exact) =>
            /\ ~ov_out.valid_category
            /\ "No exact matches found for category" \in ov_out.messages
            /\ ov_out.query = <<>>

(***************************************************************************)
(* The housing page, pages/map.py.  A district name is a sequence of       *)
(* characters; a table is named by its prefix and base name; the content   *)
(* of a table is the files and the tables' contents it was computed from.  *)
(***************************************************************************)

\* the options of the district selectbox (lines 248-267) used here
North == <<"N", "o", "r", "t", "h">>
TaiPo == <<"T", "a", "i", " ", "P", "o">>
ShaTin == <<"S", "h", "a", " ", "T", "i", "n">>
districts == {North, TaiPo, ShaTin}

Letters ==
    {"a", "b", "c", "d", "e", "f", "g", "h", "i", "j", "k", "l", "m", "n", "o", "p", "q",
     "r", "s", "t", "u", "v", "w", "x", "y", "z", "A", "B", "C", "D", "E", "F", "G", "H",
     "I", "J", "K", "L", "M", "N", "O", "P", "Q", "R", "S", "T", "U", "V", "W", "X", "Y", "Z"}
Digits == {"0", "1", "2", "3", "4", "5", "6", "7", "8", "9"}

\* the characters the pattern [^\w\-] of line 48 leaves in place
IsKept(c) == c \in Letters \cup Digits \cup {"_", "-"}

\* a variant of sanitize_filename that drops the spaces instead of replacing them
SanitizeDroppingSpaces(name) == SelectSeq(name, IsKept)

\* sanitize_filename: spaces become underscores, then every other character that
\* is not alphanumeric, underscore or hyphen is removed
sanitize_filename(name) ==
    SelectSeq([i \in 1..Len(name) |-> IF name[i] = " " THEN "_" ELSE name[i]], IsKept)

\* line 76: the sanitized names whose lot data is split into part files
SplitNames ==
    { <<"N", "o", "r", "t", "h">>,
      <<"T", "a", "i", "_", "P", "o">>,
      <<"Y", "u", "e", "n", "_", "L", "o", "n", "g">> }

\* a file of the directory data: f"{name}_lot.parquet", f"{name}_lot_part{i}.parquet",
\* f"{name}_hk2020.geojson"
DataFile(name, kind, part) == [name |-> name, kind |-> kind, part |-> part]
LotPath(name) == DataFile(name, "lot.parquet", 0)
LotPartPath(name, i) == DataFile(name, "lot_part.parquet", i)
HousingPath(name) == DataFile(name, "hk2020.geojson", 0)

\* a table: f"{sanitized_name}_lot" has the name as prefix, the fixed tables have none
Table(prefix, base) == [prefix |-> prefix, base |-> base]
LotTable(name) == Table(name, "lot")
HousingUnits == Table(<<>>, "housing_units")
AveragePricePerLot == Table(<<>>, "average_price_per_lot")
LotsWithAvgPrice == Table(<<>>, "lots_with_avg_price")

\* what a housing GeoJSON file can be: missing, without features, with features,
\* and with features but failing to open or parse
HousingFiles ==
    { [exists |-> FALSE, readable |-> FALSE, features |-> 0],
      [exists |-> TRUE,  readable |-> TRUE,  features |-> 0],
      [exists |-> TRUE,  readable |-> TRUE,  features |-> 2],
      [exists |-> TRUE,  readable |-> FALSE, features |-> 2] }

\* is_geojson_empty: True when no feature is found, and True on any error (line 39)
is_geojson_empty(file) ==
    IF ~file.readable THEN TRUE ELSE file.features = 0

\* a variant of the statement list that creates lots_with_avg_price before the
\* averages it reads
QueriesFinalFirst(q1, q2, q3, q4) == <<q1, q2, q4, q3>>

\* lines 89-160: the statements in the order they are appended
QueriesInOrder(q1, q2, q3, q4) == <<q1, q2, q3, q4>>

\* build_duckdb_queries: a statement is the table it creates, the files it reads, the
\* tables it reads and whether the geometry is simplified
build_duckdb_queries(sanitized_name, district_lot_geojson_path, district_housing_geojson_path) ==
    LET file == disk[district_housing_geojson_path]
        query1 ==
            IF sanitized_name \in SplitNames
            THEN [creates |-> LotTable(sanitized_name),
                  files |-> [i \in 1..4 |-> LotPartPath(sanitized_name, i)],
                  reads |-> <<>>, simplify |-> TRUE]
            ELSE [creates |-> LotTable(sanitized_name),
                  files |-> <<district_lot_geojson_path>>,
                  reads |-> <<>>, simplify |-> FALSE]
        query2 == [creates |-> HousingUnits, files |-> <<district_housing_geojson_path>>,
                   reads |-> <<>>, simplify |-> FALSE]
        query3 == [creates |-> AveragePricePerLot, files |-> <<>>,
                   reads |-> <<LotTable(sanitized_name), HousingUnits>>, simplify |-> FALSE]
        query4 == [creates |-> LotsWithAvgPrice, files |-> <<>>,
                   reads |-> <<LotTable(sanitized_name), AveragePricePerLot>>, simplify |-> FALSE]
    IN  IF file.exists
        THEN IF is_geojson_empty(file) THEN <<>>
             ELSE QueriesInOrder(query1, query2, query3, query4)
        ELSE <<>>

\* the content CREATE OR REPLACE TABLE ... AS gives a table on the database db
Content(db, query) ==
    [files |-> query.files, simplify |-> query.simplify,
     inputs |-> [i \in 1..Len(query.reads) |-> db[query.reads[i]]]]

\* con.execute(query) raises when the engine fails on it (failAt says which statement
\* of the list does) or when a table it reads does not exist
Raises(db, query, idx, failAt) ==
    idx = failAt \/ \E i \in 1..Len(query.reads) : query.reads[i] \notin DOMAIN db

\* a variant of the loop that skips a failing statement and goes on
RECURSIVE RunQueriesSkipping(_, _, _, _, _)
RunQueriesSkipping(db, queries, idx, failAt, executed) ==
    IF idx > Len(queries)
    THEN [db |-> db, executed |-> executed, error_idx |-> 0, closed |-> TRUE, raised |-> FALSE]
    ELSE IF Raises(db, queries[idx], idx, failAt)
    THEN RunQueriesSkipping(db, queries, idx + 1, failAt, executed)
    ELSE RunQueriesSkipping((queries[idx].creates :> Content(db, queries[idx])) @@ db,
                            queries, idx + 1, failAt, Append(executed, idx))

\* lines 182-190: the statements in list order from index idx on; the first that
\* raises is reported with its index, the connection closed and the exception re-raised
RECURSIVE RunQueries(_, _, _, _, _)
RunQueries(db, queries, idx, failAt, executed) ==
    IF idx > Len(queries)
    THEN [db |-> db, executed |-> executed, error_idx |-> 0, closed |-> TRUE, raised |-> FALSE]
    ELSE IF Raises(db, queries[idx], idx, failAt)
    THEN [db |-> db, executed |-> executed, error_idx |-> idx, closed |-> TRUE, raised |-> TRUE]
    ELSE RunQueries((queries[idx].creates :> Content(db, queries[idx])) @@ db,
                    queries, idx + 1, failAt, Append(executed, idx))

\* the body of execute_duckdb_queries on the database db; setupok says whether
\* duckdb.connect and INSTALL/LOAD spatial (lines 178-181) succeed
execute_duckdb_queries(db, queries, setupok, failAt) ==
    IF queries = <<>>
    THEN [db |-> db, executed |-> <<>>, error_idx |-> 0, closed |-> FALSE, raised |-> FALSE,
          opened |-> 0, warned |-> TRUE]
    ELSE IF ~setupok
    THEN [db |-> db, executed |-> <<>>, error_idx |-> 0, closed |-> FALSE, raised |-> TRUE,
          opened |-> 1, warned |-> FALSE]
    ELSE LET r == RunQueries(db, queries, 1, failAt, <<>>)
         IN  [db |-> r.db, executed |-> r.executed, error_idx |-> r.error_idx,
              closed |-> r.closed, raised |-> r.raised, opened |-> 1, warned |-> FALSE]

\* the body of execute_duckdb_select_query: the rows of lots_with_avg_price; an error
\* of the SELECT gives the empty DataFrame.  'for' records the name it was called with.
SelectRows(db, sanitized_name, selectok) ==
    IF selectok /\ LotsWithAvgPrice \in DOMAIN db
    THEN [for |-> sanitized_name, rows |-> <<db[LotsWithAvgPrice]>>]
    ELSE [for |-> sanitized_name, rows |-> <<>>]

\* a variant of the memo key of execute_duckdb_select_query that ignores the name
SelectKeyShared(sanitized_name) == <<>>

\* the memo key of execute_duckdb_select_query: its argument sanitized_name
SelectKey(sanitized_name) == sanitized_name

Idle == [pc |-> "idle", district |-> <<>>, sanitized_name |-> <<>>, queries |-> <<>>,
         shown |-> <<>>, fresh |-> FALSE, messages |-> {}]

\* lines 271-293: a run of main() for the selected district up to the built statements,
\* started while runs of other sessions may be under way
HsBegin(s, selected_district) ==
    /\ hs[s].pc = "idle"
    /\ LET sanitized_name == sanitize_filename(selected_district)
           queries == build_duckdb_queries(sanitized_name, LotPath(sanitized_name),
                                           HousingPath(sanitized_name))
       IN  hs' = [hs EXCEPT ![s] =
                    [pc |-> IF queries = <<>> THEN "idle" ELSE "execute",
                     district |-> selected_district,
                     sanitized_name |-> sanitized_name,
                     queries |-> queries,
                     shown |-> <<>>, fresh |-> FALSE,
                     messages |-> IF queries = <<>> THEN {"no data in the selected area"} ELSE {}]]
    /\ UNCHANGED <<disk, db_tables, memo_exec, memo_select, exec_log, all_ok>>
    /\ UNCHANGED <<fsq_vars, ov_vars, hol_vars, ext_vars>>

\* the same run started only when no run of any session is under way
HsBuild(s, selected_district) ==
    /\ \A t \in DOMAIN hs : hs[t].pc = "idle"
    /\ HsBegin(s, selected_district)

\* lines 295-301: execute_duckdb_queries(queries) through its memo
HsExecute(s, setupok, failAt) ==
    /\ hs[s].pc = "execute"
    /\ IF hs[s].queries \in memo_exec
       THEN /\ setupok /\ failAt = 0
            /\ hs' = [hs EXCEPT ![s].pc = "select",
                                ![s].messages = {"All queries executed successfully"}]
            /\ UNCHANGED <<db_tables, memo_exec, all_ok>>
       ELSE LET r == execute_duckdb_queries(db_tables, hs[s].queries, setupok, failAt)
            IN  /\ db_tables' = r.db
                /\ memo_exec' = IF r.raised THEN memo_exec ELSE memo_exec \cup {hs[s].queries}
                /\ all_ok' = (all_ok /\ ~r.raised)
                /\ hs' = [hs EXCEPT
                            ![s].pc = IF r.raised THEN "idle" ELSE "select",
                            ![s].messages = IF r.raised THEN {"DuckDB queries failed"}
                                            ELSE {"All queries executed successfully"}]
    /\ UNCHANGED <<disk, memo_select, exec_log>>
    /\ UNCHANGED <<fsq_vars, ov_vars, hol_vars, ext_vars>>

\* lines 303-371: execute_duckdb_select_query(sanitized_name) through its memo, and the
\* display of its result; connectok says whether duckdb.connect and LOAD spatial
\* (lines 206-207) succeed, selectok whether the SELECT does
HsSelect(s, connectok, selectok) ==
    /\ hs[s].pc = "select"
    /\ LET key == SelectKey(hs[s].sanitized_name)
       IN  IF key \in DOMAIN memo_select
           THEN /\ connectok /\ selectok
                /\ hs' = [hs EXCEPT ![s].pc = "idle",
                                    ![s].shown = memo_select[key].rows,
                                    ![s].fresh = FALSE,
                                    ![s].messages = IF memo_select[key].rows = <<>>
                                                    THEN {"No data available to display"} ELSE {}]
                /\ UNCHANGED <<memo_select, all_ok>>
           ELSE IF ~connectok
           THEN /\ hs' = [hs EXCEPT ![s].pc = "idle", ![s].messages = {"Error retrieving results"}]
                /\ all_ok' = FALSE
                /\ UNCHANGED memo_select
           ELSE LET result == SelectRows(db_tables, hs[s].sanitized_name, selectok)
                IN  /\ memo_select' = (key :> result) @@ memo_select
                    /\ all_ok' = (all_ok /\ selectok)
                    /\ hs' = [hs EXCEPT ![s].pc = "idle",
                                        ![s].shown = result.rows,
                                        ![s].fresh = TRUE,
                                        ![s].messages = IF result.rows = <<>>
                                                        THEN {"No data available to display"}
                                                        ELSE {}]
    /\ UNCHANGED <<disk, db_tables, memo_exec, exec_log>>
    /\ UNCHANGED <<fsq_vars, ov_vars, hol_vars, ext_vars>>

\* the page before any run: an empty database file, empty memos, idle sessions
HsBlankFor(sessions) ==
    /\ db_tables = <<>>
    /\ memo_exec = {}
    /\ memo_select = <<>>
    /\ hs = [s \in sessions |-> Idle]
    /\ exec_log = [queries |-> <<>>, setupok |-> TRUE, failAt |-> 0, executed |-> <<>>,
                   error_idx |-> 0, closed |-> FALSE, raised |-> FALSE, opened |-> 0,
                   warned |-> FALSE, called |-> FALSE]
    /\ all_ok = TRUE

HsBlank == HsBlankFor({1})

\* the page before any run, with the housing files drawn from files
HsStartOn(files) ==
    /\ disk \in [{HousingPath(sanitize_filename(d)) : d \in districts} -> files]
    /\ HsBlank

HsStart == HsStartOn(HousingFiles)

\* the housing page at rest, every district's housing file present with features
HsRest == HsStartOn({[exists |-> TRUE, readable |-> TRUE, features |-> 2]})

HsNext ==
    \/ \E s \in DOMAIN hs, d \in districts : HsBuild(s, d)
    \/ \E s \in DOMAIN hs, setupok \in BOOLEAN, failAt \in 0..4 : HsExecute(s, setupok, failAt)
    \/ \E s \in DOMAIN hs, connectok \in BOOLEAN, selectok \in BOOLEAN :
          HsSelect(s, connectok, selectok)

\* a direct call of execute_duckdb_queries (through its memo) with the empty list or
\* with the list built for a district; exec_log records what the body did
ExecCall(queries, setupok, failAt) ==
    /\ queries \notin memo_exec
    /\ LET r == execute_duckdb_queries(db_tables, queries, setupok, failAt)
       IN  /\ db_tables' = r.db
           /\ memo_exec' = IF r.raised THEN memo_exec ELSE memo_exec \cup {queries}
           /\ all_ok' = (all_ok /\ ~r.raised)
           /\ exec_log' = [queries |-> queries, setupok |-> setupok, failAt |-> failAt,
                           executed |-> r.executed, error_idx |-> r.error_idx,
                           closed |-> r.closed, raised |-> r.raised, opened |-> r.opened,
                           warned |-> r.warned, called |-> TRUE]
    /\ UNCHANGED <<disk, memo_select, hs>>

ExecNext ==
    /\ \E d \in districts, empty \in BOOLEAN, setupok \in BOOLEAN, failAt \in 0..4 :
          LET name == sanitize_filename(d)
          IN  ExecCall(IF empty THEN <<>>
                       ELSE build_duckdb_queries(name, LotPath(name), HousingPath(name)),
                       setupok, failAt)
    /\ UNCHANGED <<fsq_vars, ov_vars, hol_vars, ext_vars>>

\* the rows of lots_with_avg_price computed from a district's own lot and housing files
OwnRows(district) ==
    LET name == sanitize_filename(district)
        lot == [files |-> IF district \in {North, TaiPo}
                          THEN <<LotPartPath(name, 1), LotPartPath(name, 2),
                                 LotPartPath(name, 3), LotPartPath(name, 4)>>
                          ELSE <<LotPath(name)>>,
                simplify |-> district \in {North, TaiPo},
                inputs |-> <<>>]
        units == [files |-> <<HousingPath(name)>>, simplify |-> FALSE, inputs |-> <<>>]
        avg == [files |-> <<>>, simplify |-> FALSE, inputs |-> <<lot, units>>]
    IN  [files |-> <<>>, simplify |-> FALSE, inputs |-> <<lot, avg>>]

SelectedHousingFile(s) == disk[HousingPath(sanitize_filename(hs[s].district))]

\* the statements after the first i read only tables created by earlier ones
ReadsCreatedEarlier(queries) ==
    \A i \in 1..Len(queries) : \A j \in 1..Len(queries[i].reads) :
        \E k \in 1..(i - 1) : queries[k].creates = queries[i].reads[j]

\* the list creates <name>_lot, housing_units, average_price_per_lot and
\* lots_with_avg_price, in this order
FourInOrder(queries, name) ==
    /\ Len(queries) = 4
    /\ queries[1].creates = [prefix |-> name, base |-> "lot"]
    /\ queries[2].creates = [prefix |-> <<>>, base |-> "housing_units"]
    /\ queries[3].creates = [prefix |-> <<>>, base |-> "average_price_per_lot"]
    /\ queries[4].creates = [prefix |-> <<>>, base |-> "lots_with_avg_price"]
    /\ ReadsCreatedEarlier(queries)

C9_ExecuteInOrderStopAtFirstError ==
    exec_log.called =>
        LET n == Len(exec_log.queries)
            k == exec_log.failAt
        IN  /\ n = 0 =>
                  /\ exec_log.warned /\ exec_log.opened = 0
                  /\ exec_log.executed = <<>> /\ ~exec_log.raised
            /\ (n > 0 /\ exec_log.setupok) =>
                  /\ exec_log.opened = 1 /\ ~exec_log.warned /\ exec_log.closed
                  /\ k \in 1..n =>
                        /\ exec_log.executed = [i \in 1..(k - 1) |-> i]
                        /\ exec_log.error_idx = k
                        /\ exec_log.raised
                  /\ k = 0 =>
                        /\ exec_log.executed = [i \in 1..n |-> i]
                        /\ exec_log.error_idx = 0
                        /\ ~exec_log.raised

\* C9 witness: the second of four statements failed after the first had run
C9_Witness ==
    /\ exec_log.called
    /\ Len(exec_log.queries) = 4
    /\ exec_log.error_idx = 2
    /\ exec_log.executed = <<1>>
    /\ exec_log.closed /\ exec_log.raised

(***************************************************************************)
(* The holiday page, pages/Holiday Ridership Compare.py.  The connection   *)
(* is a cached resource: one in-memory database for every session of the   *)
(* process.  A table is modelled by the year it was materialized for.      *)
(***************************************************************************)

HolSessions == {1, 2}

\* the years of the year selectbox (line 260) used here
Years == {2023, 2024}

\* no cached connection: get_db_connection has not run, or its entry has expired
NoConnection == [state |-> "none", unique_stations |-> 0, stations_with_neighborhoods |-> 0]

\* get_db_connection through st.cache_resource: the cached value when there is one,
\* else a new in-memory connection, or None when connecting fails (None is cached too)
get_db_connection(con, conok) ==
    IF con.state # "none" THEN con
    ELSE IF conok THEN [NoConnection EXCEPT !.state = "open"]
    ELSE [NoConnection EXCEPT !.state = "failed"]

\* a variant of the test of line 277 that asks the connection which year its station
\* table holds
NeedsMaterializeByTable(con, materialized_for_year, selected_year) ==
    con.stations_with_neighborhoods # selected_year

\* line 277: the station tables are rebuilt when this session has not built them for
\* the selected year
NeedsMaterialize(con, materialized_for_year, selected_year) ==
    materialized_for_year # selected_year

HolIdle == [submitted |-> FALSE, year |-> 0, stations_read |-> 0, result |-> "none",
            exception |-> FALSE]

\* one run of main() by session s: submitted says whether Analyze was pressed, conok,
\* m1ok, m2ok and queryok whether connecting, the two materialize statements and the
\* comparison query succeed
HolRun(s, submitted, selected_year, conok, m1ok, m2ok, queryok) ==
    LET con == get_db_connection(hol_con, conok)
        need == NeedsMaterialize(con, hol_ss[s], selected_year)
        con1 == IF need /\ m1ok THEN [con EXCEPT !.unique_stations = selected_year] ELSE con
        con2 == IF need /\ m1ok /\ m2ok
                THEN [con1 EXCEPT !.stations_with_neighborhoods = con1.unique_stations]
                ELSE con1
        out  == [submitted |-> submitted, year |-> selected_year, stations_read |-> 0,
                 result |-> "none", exception |-> FALSE]
    IN  /\ hol_actor' = s
        /\ UNCHANGED <<fsq_vars, ov_vars, hs_vars, ext_vars>>
        /\ IF ~submitted \/ con.state # "open"
           THEN /\ hol_con' = con
                /\ hol_out' = [hol_out EXCEPT ![s] = out]
                /\ UNCHANGED hol_ss
           ELSE IF need /\ ~(m1ok /\ m2ok)
           THEN /\ hol_con' = con2
                /\ hol_out' = [hol_out EXCEPT ![s] = [out EXCEPT !.exception = TRUE]]
                /\ UNCHANGED hol_ss
           ELSE /\ hol_con' = con2
                /\ hol_ss' = [hol_ss EXCEPT ![s] = selected_year]
                /\ hol_out' = [hol_out EXCEPT ![s] =
                      IF queryok /\ con2.stations_with_neighborhoods # 0
                      THEN [out EXCEPT !.stations_read = con2.stations_with_neighborhoods,
                                       !.result = "rows"]
                      ELSE [out EXCEPT !.result = "No data returned"]]

\* line 70: the cached connection expires after an hour; its in-memory tables go with it
HolExpire ==
    /\ hol_con.state # "none"
    /\ hol_con' = NoConnection
    /\ hol_actor' = 0
    /\ UNCHANGED <<hol_ss, hol_out>>
    /\ UNCHANGED <<fsq_vars, ov_vars, hs_vars, ext_vars>>

HolStart ==
    /\ hol_con = NoConnection
    /\ hol_ss = [s \in HolSessions |-> 0]
    /\ hol_out = [s \in HolSessions |-> HolIdle]
    /\ hol_actor = 0

HolNext ==
    \/ \E s \in HolSessions, submitted \in BOOLEAN, selected_year \in Years,
          conok \in BOOLEAN, m1ok \in BOOLEAN, m2ok \in BOOLEAN, queryok \in BOOLEAN :
            HolRun(s, submitted, selected_year, conok, m1ok, m2ok, queryok)
    \/ HolExpire

\* C2: on every page an exception of a database or network call is caught at the page
\* level and shown inline: none leaves the page's main function.
C2_NoExceptionLeavesMain ==
    /\ ~fsq_out.exception
    /\ ~ov_out.exception
    /\ \A s \in HolSessions : ~hol_out[s].exception

\* C3: the per-session store is the only state that outlives a run: a run of one
\* session changes no table that another session's run reads (here: the station
\* table a session has materialized and will query without rebuilding it).
C3_SessionsDoNotInterfere ==
    [][ \A t \in HolSessions :
            (hol_actor' \in HolSessions \ {t} /\ hol_ss[t] # 0) =>
                hol_con'.stations_with_neighborhoods = hol_con.stations_with_neighborhoods
      ]_vars

(***************************************************************************)
(* The Airbnb page, pages/Airbnb Street Density Map.py.  Lengths and radii *)
(* are in metres; a quotient is kept exact as a pair <<numerator,          *)
(* denominator>>.                                                          *)
(***************************************************************************)

\* rows of data/hk_listing.csv (lines 67-83); coordinates in 1e-4 degrees
Listings ==
    { [name |-> "Flat A", latitude |-> 222780, longitude |-> 1141750,
       neighbourhood_cleansed |-> "Wan Chai",
       review_scores_cleanliness |-> 5, review_scores_checkin |-> 4,
       review_scores_communication |-> 5, review_scores_location |-> 3,
       review_scores_value |-> 4],
      [name |-> "Flat B", latitude |-> 223190, longitude |-> 1141690,
       neighbourhood_cleansed |-> "Yau Tsim Mong",
       review_scores_cleanliness |-> 3, review_scores_checkin |-> 5,
       review_scores_communication |-> 4, review_scores_location |-> 5,
       review_scores_value |-> 2],
      [name |-> "Flat C", latitude |-> 224450, longitude |-> 1140220,
       neighbourhood_cleansed |-> "Yuen Long",
       review_scores_cleanliness |-> 4, review_scores_checkin |-> 4,
       review_scores_communication |-> 3, review_scores_location |-> 2,
       review_scores_value |-> 5],
      [name |-> "Flat D", latitude |-> 222470, longitude |-> 1141580,
       neighbourhood_cleansed |-> "Southern",
       review_scores_cleanliness |-> 2, review_scores_checkin |-> 3,
       review_scores_communication |-> 4, review_scores_location |-> 4,
       review_scores_value |-> 3] }

\* event.selection.objects: empty, or the picked object under the layer id "Airbnb"
AbPicked(obj) == [l \in {"Airbnb"} |-> <<obj>>]
AbSelections == {NoObjects} \cup {AbPicked(obj) : obj \in Listings}

\* lines 162-166: the selection holds an object of the layer "Airbnb"
HasAirbnb(sel) == "Airbnb" \in DOMAIN sel

\* the options of the network type selectbox (line 118)
NetworkTypes == {"walk", "drive"}

\* values of the radius input (line 119: 100 to 10000 in steps of 100, default 1000)
Radii == {100, 500, 1000, 2000, 5000, 10000}

\* a Python value that is a number, and one that is a one-element tuple of a number
Scalar(x) == [tuple |-> FALSE, item |-> x]
OneTuple(x) == [tuple |-> TRUE, item |-> x]

\* lines 168-189: the record stored under "selected_airbnb".  Lines 172-175 end in a
\* comma, so each of these four names is bound to a one-element tuple.
SelectedAirbnb(selected_obj) ==
    [name |-> selected_obj.name,
     lat |-> selected_obj.latitude,
     lon |-> selected_obj.longitude,
     review_scores_cleanliness |-> OneTuple(selected_obj.review_scores_cleanliness),
     review_scores_checkin |-> OneTuple(selected_obj.review_scores_checkin),
     review_scores_communication |-> OneTuple(selected_obj.review_scores_communication),
     review_scores_location |-> OneTuple(selected_obj.review_scores_location),
     review_scores_value |-> Scalar(selected_obj.review_scores_value),
     district |-> selected_obj.neighbourhood_cleansed]

\* the street segments around the listings: the listing they lie near, their distance
\* from it, their length and the network types they belong to
Streets ==
    { [id |-> 1, lat |-> 222780, lon |-> 1141750, dist |-> 50,   length |-> 200,  types |-> {"walk", "drive"}],
      [id |-> 2, lat |-> 222780, lon |-> 1141750, dist |-> 400,  length |-> 300,  types |-> {"walk"}],
      [id |-> 3, lat |-> 222780, lon |-> 1141750, dist |-> 900,  length |-> 500,  types |-> {"walk", "drive"}],
      [id |-> 4, lat |-> 222780, lon |-> 1141750, dist |-> 1800, length |-> 1200, types |-> {"drive"}],
      [id |-> 5, lat |-> 223190, lon |-> 1141690, dist |-> 80,   length |-> 100,  types |-> {"walk"}],
      [id |-> 6, lat |-> 223190, lon |-> 1141690, dist |-> 700,  length |-> 400,  types |-> {"walk", "drive"}],
      [id |-> 7, lat |-> 223190, lon |-> 1141690, dist |-> 5000, length |-> 2500, types |-> {"walk", "drive"}],
      [id |-> 8, lat |-> 224450, lon |-> 1140220, dist |-> 90,   length |-> 600,  types |-> {"walk", "drive"}],
      [id |-> 9, lat |-> 224450, lon |-> 1140220, dist |-> 1500, length |-> 900,  types |-> {"walk"}],
      [id |-> 10, lat |-> 222470, lon |-> 1141580, dist |-> 300, length |-> 700,  types |-> {"walk", "drive"}] }

\* get_street_network: the edges of the given type within radius of the point
get_street_network(lat, lon, radius, network_type) ==
    {e \in Streets : e.lat = lat /\ e.lon = lon /\ e.dist <= radius /\ network_type \in e.types}

\* edges_gdf["length"].sum()
RECURSIVE SumLength(_)
SumLength(edges) ==
    IF edges = {} THEN 0
    ELSE LET e == CHOOSE x \in edges : TRUE
         IN  e.length + SumLength(edges \ {e})

\* exact quotients: a / b for pairs, and equality of two pairs (lengths are multiples
\* of 100 m, so a pair is first reduced by 100 where both parts allow it)
Quot(a, b) == <<a[1] * b[2], a[2] * b[1]>>
Reduce(a) == IF a[1] % 100 = 0 /\ a[2] % 100 = 0 THEN <<a[1] \div 100, a[2] \div 100>> ELSE a
QuotEq(a, b) == a[1] * b[2] = b[1] * a[2]

\* line 204: area_km2 = math.pi * (1**2), kept as its multiple of pi
AreaOverPi(user_radius) == <<1, 1>>

\* lines 203-205: density = total_length_km / area_km2, kept as density * pi
StreetDensity(edges, user_radius) ==
    LET total_length_km == Reduce(<<SumLength(edges), 1000>>)
    IN  Quot(total_length_km, AreaOverPi(user_radius))

\* st.session_state before the first run of the session: no key is set
AbEmptySessionState == [keys |-> {}, selected_airbnb |-> <<>>]

\* what a run shows when a call outside any try raises: the exception leaves main()
AbCrashed(listing) ==
    [exception |-> TRUE, listing |-> listing, network |-> <<>>, density |-> <<>>, view |-> <<>>]

\* lines 190-283: what the run shows for the stored listing
AbDisplay(selected_airbnb, user_radius, network_type) ==
    LET edges == get_street_network(selected_airbnb.lat, selected_airbnb.lon,
                                    user_radius, network_type)
    IN  [exception |-> FALSE,
         listing |-> <<[name |-> selected_airbnb.name, lat |-> selected_airbnb.lat,
                        lon |-> selected_airbnb.lon, district |-> selected_airbnb.district]>>,
         network |-> <<[lat |-> selected_airbnb.lat, lon |-> selected_airbnb.lon,
                        radius |-> user_radius, network_type |-> network_type,
                        edges |-> {e.id : e \in edges}]>>,
         density |-> <<StreetDensity(edges, user_radius)>>,
         view |-> <<[latitude |-> selected_airbnb.lat, longitude |-> selected_airbnb.lon,
                     zoom |-> 14]>>]

\* one run of main(): dbok says whether the calls of lines 66-102 succeed, netok
\* whether get_street_network does; neither is inside a try
AbRun(sel, network_type, user_radius, dbok, netok) ==
    /\ ab_in' = [selection |-> sel, network_type |-> network_type,
                 user_radius |-> user_radius, dbok |-> dbok, netok |-> netok]
    /\ IF ~dbok
       THEN /\ ab_out' = AbCrashed(<<>>)
            /\ UNCHANGED ab_ss
       ELSE LET ss == IF HasAirbnb(sel)
                      THEN [keys |-> ab_ss.keys \cup {"selected_airbnb"},
                            selected_airbnb |-> <<SelectedAirbnb(sel["Airbnb"][1])>>]
                      ELSE ab_ss
            IN  /\ ab_ss' = ss
                /\ ab_out' =
                     IF "selected_airbnb" \notin ss.keys
                     THEN [exception |-> FALSE, listing |-> <<>>, network |-> <<>>,
                           density |-> <<>>, view |-> <<>>]
                     ELSE IF ~netok
                     THEN AbCrashed(<<[name |-> ss.selected_airbnb[1].name,
                                       lat |-> ss.selected_airbnb[1].lat,
                                       lon |-> ss.selected_airbnb[1].lon,
                                       district |-> ss.selected_airbnb[1].district]>>)
                     ELSE AbDisplay(ss.selected_airbnb[1], user_radius, network_type)
    /\ UNCHANGED <<fsq_vars, ov_vars, hs_vars, hol_vars, hd_vars, cb_vars, nm_vars>>

AbStart ==
    /\ ab_ss = AbEmptySessionState
    /\ ab_in = [selection |-> NoObjects, network_type |-> "walk", user_radius |-> 1000,
                dbok |-> TRUE, netok |-> TRUE]
    /\ ab_out = [exception |-> FALSE, listing |-> <<>>, network |-> <<>>,
                 density |-> <<>>, view |-> <<>>]

\* the runs in which a call outside any try raises
AbFaultNext ==
    \E sel \in AbSelections, network_type \in NetworkTypes, user_radius \in Radii,
       dbok \in BOOLEAN, netok \in BOOLEAN :
        /\ ~(dbok /\ netok)
        /\ AbRun(sel, network_type, user_radius, dbok, netok)

\* the runs in which every call succeeds
AbNext ==
    \E sel \in AbSelections, network_type \in NetworkTypes, user_radius \in Radii :
        AbRun(sel, network_type, user_radius, TRUE, TRUE)

\* the stored listing holds the picked object's name, coordinates and district
AbStoresPlace(st, obj) ==
    /\ st.name = obj.name
    /\ st.lat = obj.latitude
    /\ st.lon = obj.longitude
    /\ st.district = obj.neighbourhood_cleansed

\* the stored listing holds the picked object's five review scores
AbStoresScores(st, obj) ==
    /\ st.review_scores_cleanliness = Scalar(obj.review_scores_cleanliness)
    /\ st.review_scores_checkin = Scalar(obj.review_scores_checkin)
    /\ st.review_scores_communication = Scalar(obj.review_scores_communication)
    /\ st.review_scores_location = Scalar(obj.review_scores_location)
    /\ st.review_scores_value = Scalar(obj.review_scores_value)

\* the run's output is the street network and the zoomed view of the listing st,
\* computed for the radius and network type the run was given
AbShownFor(out, st, in) ==
    /\ ~out.exception
    /\ out.network = <<[lat |-> st.lat, lon |-> st.lon, radius |-> in.user_radius,
                        network_type |-> in.network_type,
                        edges |-> {e.id : e \in get_street_network(st.lat, st.lon,
                                                   in.user_radius, in.network_type)}]>>
    /\ out.view = <<[latitude |-> st.lat, longitude |-> st.lon, zoom |-> 14]>>

\* the part of C11 about what is kept: once set, selected_airbnb is never removed and
\* changes only in a run that sees a selected object, and every run with a stored
\* listing shows the street network and the zoomed view computed for it
C11_StoredListingKeptAndShown ==
    [][ /\ "selected_airbnb" \in ab_ss.keys => "selected_airbnb" \in ab_ss'.keys
        /\ ab_ss'.selected_airbnb # ab_ss.selected_airbnb => HasAirbnb(ab_in'.selection)
        /\ "selected_airbnb" \in ab_ss'.keys =>
              AbShownFor(ab_out', ab_ss'.selected_airbnb[1], ab_in')
      ]_vars

\* C11: a run that sees a selected 'Airbnb' object replaces selected_airbnb with that
\* object's name, coordinates, review scores and district; once set, selected_airbnb
\* is never removed and changes only on a later selection, and every later rerun
\* recomputes the street network and the zoomed view for the stored listing.
C11_SelectStoresListing ==
    [][ /\ HasAirbnb(ab_in'.selection) =>
              /\ "selected_airbnb" \in ab_ss'.keys
              /\ AbStoresPlace(ab_ss'.selected_airbnb[1], ab_in'.selection["Airbnb"][1])
              /\ AbStoresScores(ab_ss'.selected_airbnb[1], ab_in'.selection["Airbnb"][1])
        /\ "selected_airbnb" \in ab_ss.keys => "selected_airbnb" \in ab_ss'.keys
        /\ ab_ss'.selected_airbnb # ab_ss.selected_airbnb => HasAirbnb(ab_in'.selection)
        /\ "selected_airbnb" \in ab_ss'.keys =>
              AbShownFor(ab_out', ab_ss'.selected_airbnb[1], ab_in')
      ]_vars

\* the area of the circle of the given radius in km^2, as its multiple of pi
CircleAreaOverPi(radius) == Reduce(Reduce(<<radius * radius, 1000000>>))

\* C12: for every radius the input allows, the street density shown for the selected
\* listing is the total street length found within that radius divided by the area of
\* the circle of that radius (km per km^2).
C12_DensityUsesRadius ==
    ab_out.density # <<>> =>
        LET edges == get_street_network(ab_out.network[1].lat, ab_out.network[1].lon,
                                        ab_in.user_radius, ab_in.network_type)
            total_length_km == Reduce(<<SumLength(edges), 1000>>)
        IN  QuotEq(ab_out.density[1], Quot(total_length_km, CircleAreaOverPi(ab_in.user_radius)))

(***************************************************************************)
(* The holiday page's query and map, get_holiday_comparison_data and       *)
(* display_nyc_map.  The trips of the S3 dataset are counted per start     *)
(* date, start hour and start station; an average is kept exact as a pair  *)
(* <<numerator, denominator>>.                                             *)
(***************************************************************************)

\* a calendar day with its ISO weekday (1 = Monday)
Date(year, month, day, isodow) == [year |-> year, month |-> month, day |-> day, isodow |-> isodow]

\* lines 250-254 and 283-284: Independence Day of 2024, a Thursday
IndependenceDay == Date(2024, 7, 4, 4)

\* the days of the calendar around it: the Thursdays of July 2024, a Friday of that
\* month, a Thursday of June 2024 and a Thursday of July 2023
Calendar ==
    { Date(2024, 7, 4, 4), Date(2024, 7, 11, 4), Date(2024, 7, 18, 4), Date(2024, 7, 25, 4),
      Date(2024, 7, 5, 5), Date(2024, 6, 27, 4), Date(2023, 7, 6, 4) }

\* stations_with_neighborhoods (lines 106-115): the neighbourhood of each start station
StationNeighborhood == [s \in {"S1", "S2"} |-> IF s = "S1" THEN "Chelsea" ELSE "Harlem"]

\* the ntaname column of data/nyc_bound.geojson; no station lies in Astoria
MapNeighborhoods == {"Chelsea", "Harlem", "Astoria"}

\* the hours of the slider (lines 263-271) used here
Hours == {8, 17}

\* a group of trips that started on one day, in one hour, at one station
Cell(date, hour, station) == [date |-> date, hour |-> hour, station |-> station]

\* the groups that hold up to MaxTrips trips
MainCells ==
    {Cell(d, 17, "S1") : d \in {dd \in Calendar : dd.year = 2024 /\ dd.month = 7 /\ dd.isodow = 4}}
    \cup {Cell(Date(2024, 7, 4, 4), 17, "S2"), Cell(Date(2024, 7, 11, 4), 17, "S2")}

\* the groups that hold at most one trip: another weekday, another month, another
\* year and another hour
OtherCells ==
    { Cell(Date(2024, 7, 5, 5), 17, "S1"), Cell(Date(2024, 6, 27, 4), 17, "S1"),
      Cell(Date(2023, 7, 6, 4), 17, "S1"), Cell(Date(2024, 7, 11, 4), 8, "S2") }

Digit(n) == CASE n = 0 -> "0" [] n = 1 -> "1" [] n = 2 -> "2" [] n = 3 -> "3" [] n = 4 -> "4"
              [] n = 5 -> "5" [] n = 6 -> "6" [] n = 7 -> "7" [] n = 8 -> "8" [] n = 9 -> "9"

\* strftime(started_at, '%H') of line 134: always two digits
StrftimeH(hour) == <<Digit(hour \div 10), Digit(hour % 10)>>

\* str(hour) of line 178
Str(hour) == IF hour < 10 THEN <<Digit(hour)>> ELSE <<Digit(hour \div 10), Digit(hour % 10)>>

\* s.zfill(2) of line 178
Zfill2(s) == IF Len(s) < 2 THEN <<"0">> \o s ELSE s

\* COUNT(*) of a set of groups
RECURSIVE CountTrips(_, _)
CountTrips(trips, cells) ==
    IF cells = {} THEN 0
    ELSE LET c == CHOOSE x \in cells : TRUE
         IN  trips[c] + CountTrips(trips, cells \ {c})

\* the days of a category by the calendar: the holiday itself, or every other day of
\* its year and month that falls on its weekday
DaysOfCategory(holiday_date, category) ==
    IF category = "Holiday" THEN 1
    ELSE Cardinality({d \in Calendar : /\ d.year = holiday_date.year
                                       /\ d.month = holiday_date.month
                                       /\ d.isodow = holiday_date.isodow
                                       /\ d # holiday_date})

\* COUNT(DISTINCT trip_date) of line 153: the days on which a trip of the group started
DistinctTripDates(cells) == Cardinality({c.date : c \in cells})

\* get_holiday_comparison_data: the rows of the query of lines 131-157, one for every
\* hour, category and neighbourhood in which a trip passes the WHERE clause
get_holiday_comparison_data(trips, holiday_date) ==
    LET categorized_trips ==
            {c \in DOMAIN trips : /\ trips[c] > 0
                                  /\ c.date.year = holiday_date.year
                                  /\ c.date.month = holiday_date.month
                                  /\ c.date.isodow = holiday_date.isodow}
        key(c) == <<c.hour,
                    IF c.date = holiday_date THEN "Holiday" ELSE "Baseline",
                    StationNeighborhood[c.station]>>
        row(k) ==
            LET group == {c \in categorized_trips : key(c) = k}
            IN  [hour_of_day |-> StrftimeH(k[1]), category |-> k[2], neighborhood |-> k[3],
                 trips |-> <<CountTrips(trips, group), DistinctTripDates(group)>>]
    IN  {row(k) : k \in {key(c) : c \in categorized_trips}}

\* exact arithmetic on pairs <<numerator, denominator>> with a positive denominator
RSub(a, b) == <<a[1] * b[2] - b[1] * a[2], a[2] * b[2]>>
RAbs(a) == <<IF a[1] < 0 THEN 0 - a[1] ELSE a[1], a[2]>>
RLeq(a, b) == a[1] * b[2] <= b[1] * a[2]
RMaxOf(S) == CHOOSE m \in S : \A x \in S : RLeq(x, m)
RMinOf(S) == CHOOSE m \in S : \A x \in S : RLeq(m, x)
RMax2(a, b) == IF RLeq(a, b) THEN b ELSE a

\* a variant of line 195 that looks at the largest difference only
MaxDiffOnly(differences) == RMaxOf(differences)

\* line 195: max(abs(gdf['difference'].max()), abs(gdf['difference'].min()))
MaxAbsDiff(differences) == RMax2(RAbs(RMaxOf(differences)), RAbs(RMinOf(differences)))

\* display_nyc_map, lines 177-203: the difference and the fill colour of every
\* neighbourhood of the map for the given hour
display_nyc_map(neighborhood_df, hour) ==
    LET hourly_data == {r \in neighborhood_df : r.hour_of_day = Zfill2(Str(hour))}
        value(n, cat) ==
            IF \E r \in hourly_data : r.neighborhood = n /\ r.category = cat
            THEN (CHOOSE r \in hourly_data : r.neighborhood = n /\ r.category = cat).trips
            ELSE <<0, 1>>
        difference == [n \in MapNeighborhoods |-> RSub(value(n, "Holiday"), value(n, "Baseline"))]
        found == MaxAbsDiff({difference[n] : n \in MapNeighborhoods})
        max_abs_diff == IF found[1] = 0 THEN <<1, 1>> ELSE found
        alpha(diff) == LET q == Quot(RAbs(diff), max_abs_diff) IN <<255 * q[1], q[2]>>
    IN  [n \in MapNeighborhoods |->
            [difference |-> difference[n],
             fill_color |-> IF difference[n][1] > 0
                            THEN <<0, 191, 255, alpha(difference[n])>>
                            ELSE <<255, 0, 0, alpha(difference[n])>>]]

\* lines 288-325: the query for the holiday and the map of the selected hour
HdAnalyze(holiday_date, hour) ==
    /\ hd_in' = [holiday_date |-> holiday_date, hour |-> hour, analyzed |-> TRUE]
    /\ LET neighborhood_analysis_df == get_holiday_comparison_data(hd_trips, holiday_date)
       IN  /\ hd_rows' = neighborhood_analysis_df
           /\ hd_map' = IF neighborhood_analysis_df # {}
                        THEN <<display_nyc_map(neighborhood_analysis_df, hour)>>
                        ELSE <<>>
    /\ UNCHANGED hd_trips
    /\ UNCHANGED <<fsq_vars, ov_vars, hs_vars, hol_vars, ab_vars, cb_vars, nm_vars>>

\* the page before the first Analyze
HdBlank ==
    /\ hd_in = [holiday_date |-> IndependenceDay, hour |-> 17, analyzed |-> FALSE]
    /\ hd_rows = {}
    /\ hd_map = <<>>

\* the dataset holds any number of trips up to the bounds in every group
HdStart ==
    /\ HdBlank
    /\ \E main \in [MainCells -> 0..MaxTrips], other \in [OtherCells -> 0..1] :
          hd_trips = [c \in MainCells \cup OtherCells |->
                         IF c \in MainCells THEN main[c] ELSE other[c]]

\* a dataset with one trip in every group
HdRest == HdBlank /\ hd_trips = [c \in MainCells \cup OtherCells |-> 1]

HdNext == \E hour \in Hours : HdAnalyze(IndependenceDay, hour)

\* the trips of the dataset the claim counts for an hour, a category and a
\* neighbourhood: those of the holiday's year, month and ISO weekday
CountedCells(holiday_date, h, cat, n) ==
    {c \in DOMAIN hd_trips :
        /\ c.date.year = holiday_date.year
        /\ c.date.month = holiday_date.month
        /\ c.date.isodow = holiday_date.isodow
        /\ c.hour = h
        /\ StationNeighborhood[c.station] = n
        /\ (cat = "Holiday") <=> (c.date = holiday_date)}

\* C13: for the selected holiday date D, each (hour, neighbourhood) Baseline value is
\* the average number of trips per day over all days of D's year and month that fall
\* on D's weekday other than D itself, and the Holiday value is the number of trips on
\* D; only trips of that year, month and ISO weekday are counted.
C13_BaselineIsAveragePerDay ==
    hd_in.analyzed =>
        \A h \in Hours, cat \in {"Holiday", "Baseline"}, n \in MapNeighborhoods :
            LET total == CountTrips(hd_trips, CountedCells(hd_in.holiday_date, h, cat, n))
                rows == {r \in hd_rows : /\ r.hour_of_day = StrftimeH(h)
                                         /\ r.category = cat
                                         /\ r.neighborhood = n}
            IN  IF total = 0
                THEN rows = {}
                ELSE /\ Cardinality(rows) = 1
                     /\ \A r \in rows :
                           QuotEq(r.trips, <<total, DaysOfCategory(hd_in.holiday_date, cat)>>)

\* the value the rows hold for a neighbourhood and a category at the selected hour
TripsAt(hour, n, cat) ==
    LET rows == {r \in hd_rows : /\ r.hour_of_day = StrftimeH(hour)
                                 /\ r.category = cat
                                 /\ r.neighborhood = n}
    IN  IF rows = {} THEN <<0, 1>> ELSE (CHOOSE r \in rows : TRUE).trips

\* Holiday trips minus Baseline trips of a neighbourhood at the selected hour
DifferenceAt(hour, n) == RSub(TripsAt(hour, n, "Holiday"), TripsAt(hour, n, "Baseline"))

\* C14: for the selected hour every neighbourhood's difference is Holiday trips minus
\* Baseline trips (0 where there is no row); difference > 0 is filled blue and
\* difference < 0 red, with opacity 255 * |difference| / max |difference| over all
\* neighbourhoods, which lies in 0..255; a difference of 0 is fully transparent, and
\* when every difference is 0 nothing is divided by zero.
C14_FillColourFollowsDifference ==
    hd_map # <<>> =>
        LET largest == RMaxOf({RAbs(DifferenceAt(hd_in.hour, n)) : n \in MapNeighborhoods})
        IN  \A n \in MapNeighborhoods :
                LET diff == DifferenceAt(hd_in.hour, n)
                    shown == hd_map[1][n]
                    opacity == shown.fill_color[4]
                IN  /\ QuotEq(shown.difference, diff)
                    /\ diff[1] > 0 => SubSeq(shown.fill_color, 1, 3) = <<0, 191, 255>>
                    /\ diff[1] < 0 => SubSeq(shown.fill_color, 1, 3) = <<255, 0, 0>>
                    /\ opacity[2] > 0
                    /\ opacity[1] >= 0 /\ opacity[1] <= 255 * opacity[2]
                    /\ largest[1] # 0 =>
                          QuotEq(opacity, Quot(<<255 * RAbs(diff)[1], RAbs(diff)[2]>>, largest))
                    /\ diff[1] = 0 => opacity[1] = 0

\* C14 witness: at the selected hour one neighbourhood gained trips and is drawn blue
\* at an opacity strictly between 0 and 255, and another lost trips and is drawn red
C14_Witness ==
    /\ hd_map # <<>>
    /\ \E n1, n2 \in MapNeighborhoods :
          /\ DifferenceAt(hd_in.hour, n1)[1] > 0
          /\ hd_map[1][n1].fill_color[1] = 0
          /\ hd_map[1][n1].fill_color[4][1] > 0
          /\ hd_map[1][n1].fill_color[4][1] < 255 * hd_map[1][n1].fill_color[4][2]
          /\ DifferenceAt(hd_in.hour, n2)[1] < 0
          /\ hd_map[1][n2].fill_color[1] = 255

(***************************************************************************)
(* The Citibike dashboard, pages/Citibike Data Dashboard.py.  A run opens  *)
(* a fresh in-memory database; what it puts on the page is kept as the     *)
(* list of its steps and their outcomes, in order.                         *)
(***************************************************************************)

\* the options of the year selectbox (line 169)
CbYears == 2020..2025

\* f"citibike_data_{year}" and f"citibike_sample_{year}_12percent"
MainTable(year) == <<"citibike_data", year>>
SampleTable(year) == <<"citibike_sample", year, "12percent">>

\* where load_citibike_data can fail: nowhere, in the CREATE of the main table, in the
\* CREATE of the sample table, or in the SELECT that fetches the sample
LoadFaults == {"none", "main", "sample", "fetch"}

\* the charts in the order main() calls them (lines 199-203)
Charts == <<"top stations", "rider type", "hourly">>

\* the number of rows the Bernoulli sample can hold
SampleRows == {0, 2}

Step(name, outcome) == [step |-> name, outcome |-> outcome]

\* connect_to_duckdb, lines 10-22: the connection, or None after an inline error
CbConnect(conok) ==
    IF conok THEN [con |-> TRUE, log |-> <<>>]
    ELSE [con |-> FALSE, log |-> <<Step("connect", "error")>>]

\* load_citibike_data, lines 24-65: the tables it leaves on the connection, whether it
\* returns a sample, and what it reports
load_citibike_data(year, fault, rows) ==
    CASE fault = "main" ->
            [tables |-> {}, loaded |-> FALSE, log |-> <<Step("load", "error")>>]
      [] fault = "sample" ->
            [tables |-> {MainTable(year)}, loaded |-> FALSE, log |-> <<Step("load", "error")>>]
      [] fault = "fetch" ->
            [tables |-> {MainTable(year), SampleTable(year)}, loaded |-> FALSE,
             log |-> <<Step("load", "error")>>]
      [] OTHER ->
            [tables |-> {MainTable(year), SampleTable(year)}, loaded |-> TRUE,
             log |-> <<Step("load", IF rows = 0 THEN "warning" ELSE "success")>>]

\* a variant of a chart function whose except clause re-raises
DisplayChartRaising(tables, year, name, fails, rows) ==
    IF SampleTable(year) \notin tables \/ fails
    THEN [raised |-> TRUE, log |-> <<Step(name, "error")>>]
    ELSE [raised |-> FALSE, log |-> <<Step(name, IF rows > 0 THEN "chart" ELSE "warning")>>]

\* display_top_start_stations_chart, display_member_casual_pie_chart and
\* display_hourly_trip_distribution: the query on the sample table raises when the
\* table is missing or the engine fails; the exception is caught and reported
DisplayChart(tables, year, name, fails, rows) ==
    IF SampleTable(year) \notin tables \/ fails
    THEN [raised |-> FALSE, log |-> <<Step(name, "error")>>]
    ELSE [raised |-> FALSE, log |-> <<Step(name, IF rows > 0 THEN "chart" ELSE "warning")>>]

\* lines 198-203: the charts from the i-th on, each attempted unless an exception has
\* left an earlier one
RECURSIVE RunCharts(_, _, _, _, _)
RunCharts(tables, year, i, failing, rows) ==
    IF i > Len(Charts) THEN [raised |-> FALSE, log |-> <<>>]
    ELSE LET r == DisplayChart(tables, year, Charts[i], Charts[i] \in failing, rows)
         IN  IF r.raised THEN r
             ELSE LET rest == RunCharts(tables, year, i + 1, failing, rows)
                  IN  [raised |-> rest.raised, log |-> r.log \o rest.log]

\* main(), lines 167-209
CbRun(selected_year, conok, fault, rows, failing) ==
    /\ cb_in' = [selected_year |-> selected_year, conok |-> conok, fault |-> fault,
                 rows |-> rows, failing |-> failing]
    /\ LET c == CbConnect(conok)
       IN  IF ~c.con
           THEN cb_out' = [log |-> c.log \o <<Step("critical", "error"), Step("stop", "stop")>>,
                           exception |-> FALSE]
           ELSE LET l == load_citibike_data(selected_year, fault, rows)
                    shown == IF l.loaded /\ rows > 0 THEN <<Step("preview", "table")>>
                             ELSE IF l.loaded THEN <<Step("preview", "warning")>>
                             ELSE <<Step("preview", "error")>>
                    r == RunCharts(l.tables, selected_year, 1, failing, rows)
                IN  cb_out' = [log |-> l.log \o shown \o r.log
                                       \o (IF r.raised THEN <<>> ELSE <<Step("close", "closed")>>),
                               exception |-> r.raised]
    /\ UNCHANGED <<fsq_vars, ov_vars, hs_vars, hol_vars, ab_vars, hd_vars, nm_vars>>

CbStart ==
    /\ cb_in = [selected_year |-> 2024, conok |-> TRUE, fault |-> "none", rows |-> 0,
                failing |-> {}]
    /\ cb_out = [log |-> <<>>, exception |-> FALSE]

\* a run for each year and each way its calls can fail; inputs a run never reads are
\* held at one value
CbNext ==
    \E selected_year \in CbYears, conok \in BOOLEAN, fault \in LoadFaults,
       rows \in SampleRows, failing \in SUBSET {Charts[i] : i \in 1..Len(Charts)} :
        /\ ~conok => (fault = "none" /\ rows = 0 /\ failing = {})
        /\ fault \in {"main", "sample"} => (rows = 0 /\ failing = {})
        /\ CbRun(selected_year, conok, fault, rows, failing)

\* the steps of a log with the given name
StepsNamed(log, names) == SelectSeq(log, LAMBDA e : e.step \in names)

\* C15: a failure to connect stops the run before any data load or chart is attempted;
\* a failure while loading or sampling the data, or in any one of the three charts, is
\* reported inline and the remaining charts are still attempted in order (top stations,
\* rider type, hourly); no database exception propagates out of main.
C15_FailuresReportedChartsAttempted ==
    cb_out.log # <<>> =>
        LET log == cb_out.log
            chart_steps == StepsNamed(log, {Charts[i] : i \in 1..Len(Charts)})
        IN  /\ ~cb_out.exception
            /\ ~cb_in.conok =>
                  /\ StepsNamed(log, {"load", "preview"}) = <<>>
                  /\ chart_steps = <<>>
                  /\ log[1] = Step("connect", "error")
                  /\ log[Len(log)] = Step("stop", "stop")
            /\ cb_in.conok =>
                  /\ [i \in 1..Len(chart_steps) |-> chart_steps[i].step] = Charts
                  /\ cb_in.fault # "none" => StepsNamed(log, {"load"}) = <<Step("load", "error")>>
                  /\ \A i \in 1..Len(Charts) :
                        Charts[i] \in cb_in.failing => chart_steps[i].outcome = "error"

\* C15 witness: the data loaded, the rider type chart failed and was reported, and
\* the charts before and after it were drawn
C15_Witness ==
    /\ cb_in.conok /\ cb_in.fault = "none"
    /\ StepsNamed(cb_out.log, {"top stations", "rider type", "hourly"})
          = <<Step("top stations", "chart"), Step("rider type", "error"), Step("hourly", "chart")>>

(***************************************************************************)
(* The housing page's file and table names for all eighteen districts.     *)
(***************************************************************************)

\* all eighteen options of the district selectbox (lines 248-267)
YuenLong == <<"Y", "u", "e", "n", " ", "L", "o", "n", "g">>
AllDistricts ==
    { <<"C", "e", "n", "t", "r", "a", "l", " ", "a", "n", "d", " ", "W", "e", "s", "t", "e", "r", "n">>,
      <<"E", "a", "s", "t", "e", "r", "n">>,
      <<"S", "o", "u", "t", "h", "e", "r", "n">>,
      <<"W", "a", "n", " ", "C", "h", "a", "i">>,
      <<"K", "o", "w", "l", "o", "o", "n", " ", "C", "i", "t", "y">>,
      <<"K", "w", "u", "n", " ", "T", "o", "n", "g">>,
      <<"S", "h", "a", "m", " ", "S", "h", "u", "i", " ", "P", "o">>,
      <<"W", "o", "n", "g", " ", "T", "a", "i", " ", "S", "i", "n">>,
      <<"Y", "a", "u", " ", "T", "s", "i", "m", " ", "M", "o", "n", "g">>,
      <<"I", "s", "l", "a", "n", "d", "s">>,
      <<"K", "w", "a", "i", " ", "T", "s", "i", "n", "g">>,
      North,
      <<"S", "a", "i", " ", "K", "u", "n", "g">>,
      ShaTin,
      TaiPo,
      <<"T", "s", "u", "e", "n", " ", "W", "a", "n">>,
      <<"T", "u", "e", "n", " ", "M", "u", "n">>,
      YuenLong }

\* lines 271-286: the sanitized name and the statements built for the selected district
NmApply(selected_district) ==
    /\ LET sanitized_name == sanitize_filename(selected_district)
       IN  nm_out' = [district |-> selected_district,
                      sanitized_name |-> sanitized_name,
                      queries |-> build_duckdb_queries(sanitized_name, LotPath(sanitized_name),
                                                       HousingPath(sanitized_name))]
    /\ UNCHANGED <<fsq_vars, ov_vars, hs_vars, hol_vars, ab_vars, hd_vars, cb_vars>>

NmStart == nm_out = [district |-> <<>>, sanitized_name |-> <<>>, queries |-> <<>>]

\* the housing files of all eighteen districts: every one present with features,
\* except that one may be missing, empty or unreadable
NmDisk ==
    \E odd \in AllDistricts, file \in HousingFiles :
        disk = [path \in {HousingPath(sanitize_filename(d)) : d \in AllDistricts} |->
                   IF path = HousingPath(sanitize_filename(odd)) THEN file
                   ELSE [exists |-> TRUE, readable |-> TRUE, features |-> 2]]

NmNext == \E selected_district \in AllDistricts : NmApply(selected_district)

\* C16: the lot table of exactly the three districts North, Tai Po and Yuen Long is
\* built as the UNION ALL of the four part files data/<name>_lot_part1..4.parquet with
\* simplified geometry, and the lot table of each other district from the single file
\* data/<name>_lot.parquet; the names tested for the split case are the outputs of
\* sanitize_filename for those three districts, and the eighteen districts sanitize to
\* eighteen distinct names made only of letters, digits, underscore and hyphen.
C16_SplitDistrictsUsePartFiles ==
    /\ SplitNames = {sanitize_filename(d) : d \in {North, TaiPo, YuenLong}}
    /\ Cardinality(AllDistricts) = 18
    /\ Cardinality({sanitize_filename(d) : d \in AllDistricts}) = 18
    /\ \A d \in AllDistricts :
          LET name == sanitize_filename(d)
          IN  \A i \in 1..Len(name) : name[i] \in Letters \cup Digits \cup {"_", "-"}
    /\ nm_out.queries # <<>> =>
          LET name == nm_out.sanitized_name
              lot == nm_out.queries[1]
          IN  /\ lot.creates = [prefix |-> name, base |-> "lot"]
              /\ IF nm_out.district \in {North, TaiPo, YuenLong}
                 THEN /\ lot.files = <<DataFile(name, "lot_part.parquet", 1),
                                       DataFile(name, "lot_part.parquet", 2),
                                       DataFile(name, "lot_part.parquet", 3),
                                       DataFile(name, "lot_part.parquet", 4)>>
                      /\ lot.simplify
                 ELSE /\ lot.files = <<DataFile(name, "lot.parquet", 0)>>
                      /\ ~lot.simplify

\* C16 witness: the statements were built for Yuen Long, whose lot table is the union
\* of the four part files of Yuen_Long
C16_Witness ==
    /\ nm_out.district = YuenLong
    /\ Len(nm_out.queries) = 4
    /\ nm_out.sanitized_name = <<"Y", "u", "e", "n", "_", "L", "o", "n", "g">>
    /\ Len(nm_out.queries[1].files) = 4
    /\ nm_out.queries[1].simplify

\* two browser sessions on the housing page, every district's housing file present
\* with features
Hs2Start ==
    /\ disk \in [{HousingPath(sanitize_filename(d)) : d \in districts} ->
                    {[exists |-> TRUE, readable |-> TRUE, features |-> 2]}]
    /\ HsBlankFor({1, 2})

\* the runs of the two sessions, each in its own script thread: a run is started
\* whatever the other session is doing, and its calls of the two execute functions
\* are steps of their own
Hs2Next ==
    \/ \E s \in DOMAIN hs, d \in districts : HsBegin(s, d)
    \/ \E s \in DOMAIN hs, setupok \in BOOLEAN, failAt \in 0..4 : HsExecute(s, setupok, failAt)
    \/ \E s \in DOMAIN hs, connectok \in BOOLEAN, selectok \in BOOLEAN :
          HsSelect(s, connectok, selectok)

\* C17: when two sessions select different districts A and B at overlapping times,
\* each session's displayed and memoized result is its own district's: the final
\* SELECT run for A never reads lots_with_avg_price after B's statements have
\* replaced it, and a result memoized under A's name is never B's rows (as long as
\* no statement or connection has failed).
C17_OverlappingSessionsKeepOwnRows ==
    all_ok =>
        /\ \A s \in DOMAIN hs :
              hs[s].shown # <<>> => hs[s].shown = <<OwnRows(hs[s].district)>>
        /\ \A d \in districts :
              LET key == sanitize_filename(d)
              IN  (key \in DOMAIN memo_select /\ memo_select[key].rows # <<>>) =>
                      memo_select[key].rows = <<OwnRows(d)>>

(***************************************************************************)
(* Specifications: one per page, and one of all pages together.            *)
(***************************************************************************)
RestInit == FsqStart /\ OvStart /\ HsRest /\ HolStart /\ AbStart /\ HdRest /\ CbStart /\ NmStart

SpecFsq == RestInit /\ [][FsqNext]_vars

SpecOverture == RestInit /\ [][OvNext]_vars

HsInit == FsqStart /\ OvStart /\ HsStart /\ HolStart /\ AbStart /\ HdRest /\ CbStart /\ NmStart

SpecHousing == HsInit /\ [][HsNext]_vars

SpecExec == HsInit /\ [][ExecNext]_vars

SpecHoliday == RestInit /\ [][HolNext]_vars

SpecAirbnb == RestInit /\ [][AbNext]_vars

HdInit == FsqStart /\ OvStart /\ HsRest /\ HolStart /\ AbStart /\ HdStart /\ CbStart /\ NmStart

SpecHolidayData == HdInit /\ [][HdNext]_vars

SpecCitibike == RestInit /\ [][CbNext]_vars

NmInit ==
    /\ FsqStart /\ OvStart /\ NmDisk /\ HsBlank /\ HolStart
    /\ AbStart /\ HdRest /\ CbStart /\ NmStart

SpecNames == NmInit /\ [][NmNext]_vars

Hs2Init ==
    /\ FsqStart /\ OvStart /\ Hs2Start /\ HolStart
    /\ AbStart /\ HdRest /\ CbStart /\ NmStart

SpecHousingTwoSessions == Hs2Init /\ [][Hs2Next]_vars

Init == HsInit

Next ==
    \/ FsqNext \/ FsqFaultNext \/ OvNext \/ HsNext \/ ExecNext \/ HolNext
    \/ AbNext \/ AbFaultNext \/ HdNext \/ CbNext
    \/ \E selected_district \in districts : NmApply(selected_district)

Spec == Init /\ [][Next]_vars
====
